---- MODULE Spec2Model ----
(***************************************************************************)
(* git-open: a CLI that opens the home page of a repository, or the open   *)
(* merge request of the current branch, in the browser (main.go).          *)
(*                                                                         *)
(* A Go string is modelled as a sequence of one-character strings, so that *)
(* the functions of package strings the program uses (Split, SplitN,       *)
(* Fields, HasPrefix, HasSuffix, TrimPrefix, TrimSuffix, TrimSpace,        *)
(* Replace) are computed character by character.  main.go holds two        *)
(* variants of the program: lines 1-217 (Spec, SpecParse) and lines        *)
(* 219-376 (SpecV2).                                                       *)
(***************************************************************************)
EXTENDS Integers, Sequences, FiniteSets, TLC

VARIABLES
    arg,      \* os.Args[1:], a sequence of at most one argument
    pc,       \* position of main
    exit,     \* exit status of the process once pc = "done"
    out,      \* stdout buffer of the git command run by the last step
    rawurl,   \* url returned by getProjectRemote / argument of the parsers
    branch,   \* main: branch
    name,     \* getProjectID: name
    org,      \* getProjectID: org
    projs,    \* getProjectID: projs, the candidates the search returned
    projID,   \* main: projID
    mrs,      \* getMRURL: mrs
    mrURL,    \* main: mrURL
    homeURL,  \* main: homeURL
    calls,    \* the external calls made so far (git, API, opener), in order
    input     \* SpecParse: the components the remote URL was built from

vars == <<arg, pc, exit, out, rawurl, branch, name, org, projs, projID, mrs,
          mrURL, homeURL, calls, input>>

(***************************************************************************)
(* Bounds of the model.                                                    *)
(***************************************************************************)
MaxLen == 2      \* longest generated user / host / org / name
MaxLines == 2    \* most lines in a generated git listing
MaxProjs == 2    \* most candidates in a project search response
MaxMRs == 2      \* most merge requests in a list response

(***************************************************************************)
(* Package strings.                                                        *)
(***************************************************************************)
Min(S) == CHOOSE x \in S : \A y \in S : x <= y

\* unicode.IsSpace, over the characters the model uses
IsSpace(c) == c \in {" ", "\t", "\n", "\r", "\f"}

HasPrefix(s, p) == Len(s) >= Len(p) /\ SubSeq(s, 1, Len(p)) = p

HasSuffix(s, p) ==
    Len(s) >= Len(p) /\ SubSeq(s, Len(s) - Len(p) + 1, Len(s)) = p

TrimPrefix(s, p) == IF HasPrefix(s, p) THEN SubSeq(s, Len(p) + 1, Len(s)) ELSE s

TrimSuffix(s, p) == IF HasSuffix(s, p) THEN SubSeq(s, 1, Len(s) - Len(p)) ELSE s

RECURSIVE TrimLeft(_)
TrimLeft(s) ==
    IF s # <<>> /\ IsSpace(Head(s)) THEN TrimLeft(Tail(s)) ELSE s

RECURSIVE TrimRight(_)
TrimRight(s) ==
    IF s # <<>> /\ IsSpace(s[Len(s)]) THEN TrimRight(SubSeq(s, 1, Len(s) - 1))
    ELSE s

TrimSpace(s) == TrimRight(TrimLeft(s))

\* strings.Index for a one-character separator; 0 when absent (Go: -1)
Index(s, c) ==
    IF \E i \in 1..Len(s) : s[i] = c
    THEN Min({i \in 1..Len(s) : s[i] = c})
    ELSE 0

\* strings.SplitN(s, c, 2)
SplitN2(s, c) ==
    LET i == Index(s, c) IN
    IF i = 0 THEN <<s>>
    ELSE <<SubSeq(s, 1, i - 1), SubSeq(s, i + 1, Len(s))>>

\* strings.Split(s, c)
RECURSIVE Split(_, _)
Split(s, c) ==
    LET i == Index(s, c) IN
    IF i = 0 THEN <<s>>
    ELSE <<SubSeq(s, 1, i - 1)>> \o Split(SubSeq(s, i + 1, Len(s)), c)

\* strings.Fields(s): the maximal runs of non-space characters
RECURSIVE FieldsFrom(_, _)
FieldsFrom(s, cur) ==
    IF s = <<>> THEN (IF cur = <<>> THEN <<>> ELSE <<cur>>)
    ELSE IF IsSpace(Head(s))
         THEN (IF cur = <<>> THEN <<>> ELSE <<cur>>) \o FieldsFrom(Tail(s), <<>>)
         ELSE FieldsFrom(Tail(s), Append(cur, Head(s)))

Fields(s) == FieldsFrom(s, <<>>)

\* strings.Replace(s, old, new, 1) for one-character old and new
Replace1(s, old, new) ==
    LET i == Index(s, old) IN
    IF i = 0 THEN s ELSE [s EXCEPT ![i] = new]

\* strconv.Itoa
Digit(d) == <<"0", "1", "2", "3", "4", "5", "6", "7", "8", "9">>[d + 1]

RECURSIVE ItoaNat(_)
ItoaNat(n) == IF n < 10 THEN <<Digit(n)>> ELSE Append(ItoaNat(n \div 10), Digit(n % 10))

Itoa(n) == IF n < 0 THEN <<"-">> \o ItoaNat(0 - n) ELSE ItoaNat(n)

(***************************************************************************)
(* The remote URL parsers.  Indexing the result of SplitN at [1] panics    *)
(* when the separator is absent (index out of range), which ends the       *)
(* process with exit status 2.                                             *)
(***************************************************************************)
GitSuffix == <<".", "g", "i", "t">>
HttpsScheme == <<"h", "t", "t", "p", "s", ":", "/", "/">>

Ok(v) == [panic |-> FALSE, val |-> v]
Panic == [panic |-> TRUE, val |-> <<>>]

\* a plausible bug: split on every "/" and take the last piece
parseRepoURLProjectName_LastPiece(url) ==
    LET hostAndProject == SplitN2(url, ":") IN
    IF Len(hostAndProject) < 2 THEN Panic
    ELSE LET orgAndName == Split(hostAndProject[2], "/") IN
         IF Len(orgAndName) < 2 THEN Panic
         ELSE Ok(TrimSuffix(orgAndName[Len(orgAndName)], GitSuffix))

\* a plausible bug: the last piece is taken whether or not the separator
\* was found, so that nothing panics
parseRepoURLProjectName_NoPanic(url) ==
    LET hostAndProject == SplitN2(url, ":")
        orgAndName == SplitN2(hostAndProject[Len(hostAndProject)], "/")
    IN Ok(TrimSuffix(orgAndName[Len(orgAndName)], GitSuffix))

parseRepoURLProjectName(url) ==
    LET hostAndProject == SplitN2(url, ":") IN
    IF Len(hostAndProject) < 2 THEN Panic
    ELSE LET orgAndName == SplitN2(hostAndProject[2], "/") IN
         IF Len(orgAndName) < 2 THEN Panic
         ELSE Ok(TrimSuffix(orgAndName[2], GitSuffix))

parseRepoURLProjectOrg(url) ==
    LET hostAndProject == SplitN2(url, ":") IN
    IF Len(hostAndProject) < 2 THEN Panic
    ELSE LET orgAndName == SplitN2(hostAndProject[2], "/") IN
         Ok(orgAndName[1])

parseRepoURLProjectURL(url) ==
    LET userAndRest == SplitN2(url, "@") IN
    IF Len(userAndRest) < 2 THEN Panic
    ELSE Ok(HttpsScheme \o TrimSuffix(Replace1(userAndRest[2], ":", "/"), GitSuffix))

(***************************************************************************)
(* Results of the functions that return (string, error).                   *)
(***************************************************************************)
Val(v) == [err |-> FALSE, val |-> v]
Err == [err |-> TRUE, val |-> <<>>]

(***************************************************************************)
(* getBranch: the scan of the output of `git branch`.                      *)
(***************************************************************************)
Marker == <<"*">>

\* a plausible bug: keep scanning and return the last marked line
RECURSIVE getBranchLines_Last(_)
getBranchLines_Last(lines) ==
    IF lines = <<>> THEN Err
    ELSE IF HasPrefix(lines[Len(lines)], Marker)
         THEN Val(TrimSpace(TrimPrefix(lines[Len(lines)], Marker)))
         ELSE getBranchLines_Last(SubSeq(lines, 1, Len(lines) - 1))

RECURSIVE getBranchLines(_)
getBranchLines(lines) ==
    IF lines = <<>> THEN Err
    ELSE IF HasPrefix(Head(lines), Marker)
         THEN Val(TrimSpace(TrimPrefix(Head(lines), Marker)))
         ELSE getBranchLines(Tail(lines))

getBranch(o) == getBranchLines(Split(o, "\n"))

(***************************************************************************)
(* getProjectRemote: the scan of the output of `git remote -v`.            *)
(***************************************************************************)
PushTag == <<"(", "p", "u", "s", "h", ")">>

\* a plausible bug: the tag is not tested, so a fetch line is accepted
RECURSIVE getProjectRemoteLines_AnyTag(_)
getProjectRemoteLines_AnyTag(lines) ==
    IF lines = <<>> THEN Err
    ELSE LET line == Head(lines)
             parts == Fields(line)
         IN IF line = <<>> THEN getProjectRemoteLines_AnyTag(Tail(lines))
            ELSE IF Len(parts) < 3 THEN getProjectRemoteLines_AnyTag(Tail(lines))
            ELSE Val(parts[2])

RECURSIVE getProjectRemoteLines(_)
getProjectRemoteLines(lines) ==
    IF lines = <<>> THEN Err
    ELSE LET line == Head(lines)
             parts == Fields(line)
         IN IF line = <<>> THEN getProjectRemoteLines(Tail(lines))
            ELSE IF Len(parts) < 3 THEN getProjectRemoteLines(Tail(lines))
            ELSE IF parts[3] = PushTag THEN Val(parts[2])
            ELSE getProjectRemoteLines(Tail(lines))

getProjectRemote(o) == getProjectRemoteLines(Split(o, "\n"))

(***************************************************************************)
(* The environment: what git prints, what the API answers.                 *)
(***************************************************************************)
UrlSSH == <<"g", "@", "h", ":", "o", "/", "n", ".", "g", "i", "t">>  \* g@h:o/n.git
UrlOther == <<"g", "@", "h", ":", "p", "/", "m", ".", "g", "i", "t">>  \* g@h:p/m.git
UrlHTTPS == <<"h", "t", "t", "p", "s", ":", "/", "/", "h", "/", "o", "/", "n", ".", "g", "i", "t">>  \* https://h/o/n.git
UrlNoColon == <<"g", "@", "h", "/", "o", "/", "n", ".", "g", "i", "t">>  \* g@h/o/n.git
UrlNoSlash == <<"g", "@", "h", ":", "n", ".", "g", "i", "t">>  \* g@h:n.git
UrlNoAt == <<"h", ":", "o", "/", "n", ".", "g", "i", "t">>  \* h:o/n.git
UrlLongOrg == <<"g", "@", "h", ":", "x", "o", "/", "n", ".", "g", "i", "t">>  \* g@h:xo/n.git
UrlGitHub == <<"g", "i", "t", "@", "g", "i", "t", "h", "u", "b", ".", "c", "o", "m", ":", "m", "i", "n", "o", "n", "d", "/", "g", "i", "t", "-", "o", "p", "e", "n", ".", "g", "i", "t">>  \* git@github.com:minond/git-open.git
Origin == <<"o", "r", "i", "g", "i", "n">>  \* origin
FetchTag == <<"(", "f", "e", "t", "c", "h", ")">>  \* (fetch)
StateOpened == <<"o", "p", "e", "n", "e", "d">>  \* opened
ViewSimple == <<"s", "i", "m", "p", "l", "e">>  \* simple
WebURL1 == <<"h", "t", "t", "p", "s", ":", "/", "/", "h", "/", "o", "/", "n", "/", "m", "r", "/", "1">>  \* https://h/o/n/mr/1
WebURL2 == <<"h", "t", "t", "p", "s", ":", "/", "/", "h", "/", "o", "/", "n", "/", "m", "r", "/", "2">>  \* https://h/o/n/mr/2

NL == <<"\n">>
TAB == <<"\t">>
SP == <<" ">>

\* the concatenation of at most n lines of pool, each ended by a newline
RECURSIVE Listings(_, _)
Listings(pool, n) ==
    IF n = 0 THEN {<<>>}
    ELSE {<<>>} \cup {l \o NL \o rest : l \in pool, rest \in Listings(pool, n - 1)}

\* lines of `git branch`
BranchLinePool ==
    { SP \o SP \o <<"m">>,                    \* "  m", another branch
      Marker \o SP \o <<"d">>,                \* "* d", the current branch
      Marker \o SP \o SP \o <<"f">> \o TAB,   \* "*  f\t", padded
      Marker,                                 \* "*", the marker alone
      SP \o Marker \o SP \o <<"x">> }         \* " * x", marker not in front

BranchListings == Listings(BranchLinePool, MaxLines)

\* remotes a repository may have
RemoteURLs == {UrlSSH, UrlOther, UrlHTTPS, UrlNoColon, UrlNoSlash, UrlNoAt}

\* lines of `git remote -v`
RemoteLinePool ==
    { <<>>,                                                     \* empty
      <<"\r">>,                                                 \* no fields
      Origin \o TAB \o UrlSSH,                                  \* two fields
      Origin \o TAB \o UrlSSH \o SP \o FetchTag,
      Origin \o TAB \o UrlSSH \o SP \o PushTag,
      SP \o Origin \o SP \o UrlOther \o TAB \o PushTag \o SP \o <<"x">> }

\* the listings of at most MaxLines lines, and one of a single push line for
\* every remote
RemoteListings ==
    Listings(RemoteLinePool, MaxLines)
    \cup {Origin \o TAB \o u \o SP \o PushTag \o NL : u \in RemoteURLs}

\* gitlab.Project
ProjPool ==
    { [ID |-> 7, SSHURLToRepo |-> UrlSSH],
      [ID |-> 12, SSHURLToRepo |-> UrlLongOrg],
      [ID |-> 305, SSHURLToRepo |-> UrlOther] }

\* gitlab.MergeRequest
MRPool == { [WebURL |-> WebURL1], [WebURL |-> WebURL2] }

SeqsUpTo(S, n) == UNION {[1..k -> S] : k \in 0..n}

ProjLists == SeqsUpTo(ProjPool, MaxProjs)
MRLists == SeqsUpTo(MRPool, MaxMRs)

Args == {<<>>, <<"mr">>, <<"home">>, <<"homepage">>, <<"foo">>, <<"MR">>}

(***************************************************************************)
(* getProjectID: the choice among the candidates of the search.            *)
(***************************************************************************)
\* lines 58-64
RECURSIVE matchProject(_, _, _)
matchProject(ps, o, n) ==
    IF ps = <<>> THEN Err
    ELSE IF HasSuffix(Head(ps).SSHURLToRepo, o \o <<"/">> \o n \o GitSuffix)
         THEN Val(Itoa(Head(ps).ID))
         ELSE matchProject(Tail(ps), o, n)

\* lines 54-64
selectProject(ps, o, n) == IF Len(ps) = 0 THEN Err ELSE matchProject(ps, o, n)

\* second variant, lines 268-272
selectProjectV2(ps) == IF Len(ps) = 0 THEN Err ELSE Val(Itoa(ps[1].ID))

\* a plausible bug: the last merge request is taken
firstMR_Last(ms) == IF Len(ms) = 0 THEN Err ELSE Val(ms[Len(ms)].WebURL)

\* getMRURL, lines 79-83
firstMR(ms) == IF Len(ms) = 0 THEN Err ELSE Val(ms[1].WebURL)

\* second variant, lines 305-322: the scan inlined in getProjectName
RECURSIVE pushURLV2(_)
pushURLV2(lines) ==
    IF lines = <<>> THEN <<>>
    ELSE LET line == Head(lines)
             parts == Fields(line)
         IN IF line = <<>> THEN pushURLV2(Tail(lines))
            ELSE IF Len(parts) < 3 THEN pushURLV2(Tail(lines))
            ELSE IF parts[3] = PushTag THEN parts[2]
            ELSE pushURLV2(Tail(lines))

getProjectRemoteV2(o) ==
    LET url == pushURLV2(Split(o, "\n")) IN
    IF url = <<>> THEN Err ELSE Val(url)

(***************************************************************************)
(* The process.                                                            *)
(***************************************************************************)
Running == 0 - 1   \* exit while the process has not ended

Call(c, ran, ok, req, res) ==
    [call |-> c, ran |-> ran, ok |-> ok, req |-> req, res |-> res]

NoInput == [user |-> <<>>, host |-> <<>>, org |-> <<>>, name |-> <<>>]

Init ==
    /\ arg \in Args
    /\ pc = "start"
    /\ exit = Running
    /\ out = <<>> /\ rawurl = <<>> /\ branch = <<>> /\ name = <<>> /\ org = <<>>
    /\ projs = <<>> /\ projID = <<>> /\ mrs = <<>> /\ mrURL = <<>>
    /\ homeURL = <<>> /\ calls = <<>>
    /\ input = NoInput

\* log.Fatalf: os.Exit(1)
Fatal == pc' = "done" /\ exit' = 1

\* a runtime panic: exit status 2
Panicked == pc' = "done" /\ exit' = 2

\* a plausible bug: the default case falls into the merge request pipeline
Dispatch_NoDefault(a) ==
    IF a \in {"home", "homepage"} THEN "getProjectHomeURL" ELSE "getBranch"

\* main, lines 200-216: the case chosen by the switch
Dispatch(a) ==
    IF a = "mr" THEN "getBranch"
    ELSE IF a \in {"home", "homepage"} THEN "getProjectHomeURL"
    ELSE "done"

\* main, lines 195-216
Main ==
    /\ pc = "start"
    /\ LET a == IF Len(arg) > 0 THEN arg[1] ELSE "home" IN
       /\ pc' = Dispatch(a)
       /\ exit' = IF Dispatch(a) = "done" THEN 1 ELSE exit
    /\ UNCHANGED <<arg, out, rawurl, branch, name, org, projs, projID, mrs,
                   mrURL, homeURL, calls, input>>

\* main line 203 / 372: stringmust(getBranch())
GetBranch ==
    /\ pc = "getBranch"
    /\ \E ran \in BOOLEAN, o \in BranchListings :
         LET r == IF ran THEN getBranch(o) ELSE Err IN
         /\ out' = o
         /\ calls' = Append(calls, Call("git branch", ran, ~r.err, <<>>, r.val))
         /\ IF r.err THEN Fatal /\ branch' = branch
            ELSE pc' = "getProjectName" /\ exit' = exit /\ branch' = r.val
    /\ UNCHANGED <<arg, rawurl, name, org, projs, projID, mrs, mrURL, homeURL,
                   input>>

\* getProjectID lines 37-40: getProjectName()
GetProjectName ==
    /\ pc = "getProjectName"
    /\ \E ran \in BOOLEAN, o \in RemoteListings :
         LET r == IF ran THEN getProjectRemote(o) ELSE Err
             p == parseRepoURLProjectName(r.val)
         IN
         /\ out' = o
         /\ rawurl' = r.val
         /\ calls' = Append(calls, Call("git remote -v", ran,
                                        ~r.err /\ ~p.panic, <<>>, r.val))
         /\ IF r.err THEN Fatal /\ name' = name
            ELSE IF p.panic THEN Panicked /\ name' = name
            ELSE pc' = "getProjectOrg" /\ exit' = exit /\ name' = p.val
    /\ UNCHANGED <<arg, branch, org, projs, projID, mrs, mrURL, homeURL, input>>

\* getProjectID lines 42-45: getProjectOrg()
GetProjectOrg ==
    /\ pc = "getProjectOrg"
    /\ \E ran \in BOOLEAN, o \in RemoteListings :
         LET r == IF ran THEN getProjectRemote(o) ELSE Err
             p == parseRepoURLProjectOrg(r.val)
         IN
         /\ out' = o
         /\ rawurl' = r.val
         /\ calls' = Append(calls, Call("git remote -v", ran,
                                        ~r.err /\ ~p.panic, <<>>, r.val))
         /\ IF r.err THEN Fatal /\ org' = org
            ELSE IF p.panic THEN Panicked /\ org' = org
            ELSE pc' = "ListProjects" /\ exit' = exit /\ org' = p.val
    /\ UNCHANGED <<arg, branch, name, projs, projID, mrs, mrURL, homeURL, input>>

\* getProjectID lines 47-64: the search and the choice of the candidate
ListProjects ==
    /\ pc = "ListProjects"
    /\ \E ran \in BOOLEAN, ps \in ProjLists :
         LET r == IF ran THEN selectProject(ps, org, name) ELSE Err IN
         /\ ~ran => ps = <<>>
         /\ projs' = ps
         /\ calls' = Append(calls, Call("ListProjects", ran, ~r.err, <<name>>, r.val))
         /\ IF r.err THEN Fatal /\ projID' = projID
            ELSE pc' = "getMRURL" /\ exit' = exit /\ projID' = r.val
    /\ out' = <<>>
    /\ UNCHANGED <<arg, rawurl, branch, name, org, mrs, mrURL, homeURL, input>>

\* main line 205 / 374: stringmust(getMRURL(client, projID, branch))
GetMRURL ==
    /\ pc = "getMRURL"
    /\ \E ran \in BOOLEAN, ms \in MRLists :
         LET r == IF ran THEN firstMR(ms) ELSE Err IN
         /\ ~ran => ms = <<>>
         /\ mrs' = ms
         /\ calls' = Append(calls, Call("ListProjectMergeRequests", ran, ~r.err,
                                        <<projID, branch, StateOpened, ViewSimple>>,
                                        r.val))
         /\ IF r.err THEN Fatal /\ mrURL' = mrURL
            ELSE pc' = "loadMR" /\ exit' = exit /\ mrURL' = r.val
    /\ UNCHANGED <<arg, out, rawurl, branch, name, org, projs, projID, homeURL,
                   input>>

\* main line 211: stringmust(getProjectHomeURL())
GetProjectHomeURL ==
    /\ pc = "getProjectHomeURL"
    /\ \E ran \in BOOLEAN, o \in RemoteListings :
         LET r == IF ran THEN getProjectRemote(o) ELSE Err
             p == parseRepoURLProjectURL(r.val)
         IN
         /\ out' = o
         /\ rawurl' = r.val
         /\ calls' = Append(calls, Call("git remote -v", ran,
                                        ~r.err /\ ~p.panic, <<>>, r.val))
         /\ IF r.err THEN Fatal /\ homeURL' = homeURL
            ELSE IF p.panic THEN Panicked /\ homeURL' = homeURL
            ELSE pc' = "loadHome" /\ exit' = exit /\ homeURL' = p.val
    /\ UNCHANGED <<arg, branch, name, org, projs, projID, mrs, mrURL, input>>

\* main lines 206, 212 / 375: must(load(url)); load, lines 153-161
Load ==
    /\ pc \in {"loadMR", "loadHome"}
    /\ \E xdg \in BOOLEAN, ran \in BOOLEAN :
         LET url == IF pc = "loadMR" THEN mrURL ELSE homeURL
             open == IF xdg THEN "xdg-open" ELSE "open"
         IN
         /\ calls' = Append(calls, Call(open, ran, ran, <<url>>, <<>>))
         /\ pc' = "done"
         /\ exit' = IF ran THEN 0 ELSE 1
    /\ out' = <<>>
    /\ UNCHANGED <<arg, rawurl, branch, name, org, projs, projID, mrs, mrURL,
                   homeURL, input>>

Next ==
    \/ Main
    \/ GetBranch
    \/ GetProjectName
    \/ GetProjectOrg
    \/ ListProjects
    \/ GetMRURL
    \/ GetProjectHomeURL
    \/ Load

Spec == Init /\ [][Next]_vars

(***************************************************************************)
(* The second variant of the program (lines 219-376): main takes no        *)
(* argument into account, getProjectID reads the name alone and takes the  *)
(* first candidate of the search.                                          *)
(***************************************************************************)
\* main, lines 366-372
V2Main ==
    /\ pc = "start"
    /\ pc' = "getBranch"
    /\ UNCHANGED <<arg, exit, out, rawurl, branch, name, org, projs, projID, mrs,
                   mrURL, homeURL, calls, input>>

\* getProjectID lines 256-259: getProjectName(), lines 294-325
V2GetProjectName ==
    /\ pc = "getProjectName"
    /\ \E ran \in BOOLEAN, o \in RemoteListings :
         LET r == IF ran THEN getProjectRemoteV2(o) ELSE Err
             p == parseRepoURLProjectName(r.val)
         IN
         /\ out' = o
         /\ rawurl' = r.val
         /\ calls' = Append(calls, Call("git remote -v", ran,
                                        ~r.err /\ ~p.panic, <<>>, r.val))
         /\ IF r.err THEN Fatal /\ name' = name
            ELSE IF p.panic THEN Panicked /\ name' = name
            ELSE pc' = "ListProjects" /\ exit' = exit /\ name' = p.val
    /\ UNCHANGED <<arg, branch, org, projs, projID, mrs, mrURL, homeURL, input>>

\* getProjectID lines 261-272
V2ListProjects ==
    /\ pc = "ListProjects"
    /\ \E ran \in BOOLEAN, ps \in ProjLists :
         LET r == IF ran THEN selectProjectV2(ps) ELSE Err IN
         /\ ~ran => ps = <<>>
         /\ projs' = ps
         /\ calls' = Append(calls, Call("ListProjects", ran, ~r.err, <<name>>, r.val))
         /\ IF r.err THEN Fatal /\ projID' = projID
            ELSE pc' = "getMRURL" /\ exit' = exit /\ projID' = r.val
    /\ out' = <<>>
    /\ UNCHANGED <<arg, rawurl, branch, name, org, mrs, mrURL, homeURL, input>>

NextV2 ==
    \/ V2Main
    \/ GetBranch
    \/ V2GetProjectName
    \/ V2ListProjects
    \/ GetMRURL
    \/ Load

SpecV2 == Init /\ [][NextV2]_vars

(***************************************************************************)
(* The parsers on every remote URL user@host:org/name.git built from       *)
(* bounded components.                                                     *)
(***************************************************************************)
NonEmptySeqs(S, n) == UNION {[1..k -> S] : k \in 1..n}

Users == NonEmptySeqs({"g", ":", "/"}, MaxLen)     \* free of "@"
Hosts == NonEmptySeqs({"h", "@"}, MaxLen)          \* free of ":" and "/"
Orgs == NonEmptySeqs({"o", "@"}, MaxLen)           \* free of ":" and "/"
Names == NonEmptySeqs({"n", "/", ":"}, MaxLen)

GitHubInput ==
    [user |-> <<"g", "i", "t">>, host |-> <<"g", "i", "t", "h", "u", "b", ".", "c", "o", "m">>, org |-> <<"m", "i", "n", "o", "n", "d">>, name |-> <<"g", "i", "t", "-", "o", "p", "e", "n">>]

Inputs ==
    [user : Users, host : Hosts, org : Orgs, name : Names]
    \cup {GitHubInput}
    \cup {[user |-> <<"g">>, host |-> <<"h">>, org |-> <<"o">>,
           name |-> <<"n">> \o GitSuffix]}

MkURL(in) ==
    in.user \o <<"@">> \o in.host \o <<":">> \o in.org \o <<"/">> \o in.name
        \o GitSuffix

InitParse ==
    /\ input \in Inputs
    /\ rawurl = MkURL(input)
    /\ pc = "parseName"
    /\ arg = <<>> /\ exit = Running
    /\ out = <<>> /\ branch = <<>> /\ name = <<>> /\ org = <<>>
    /\ projs = <<>> /\ projID = <<>> /\ mrs = <<>> /\ mrURL = <<>>
    /\ homeURL = <<>> /\ calls = <<>>

ParseName ==
    /\ pc = "parseName"
    /\ LET p == parseRepoURLProjectName(rawurl) IN
       IF p.panic THEN Panicked /\ name' = name
       ELSE pc' = "parseOrg" /\ exit' = exit /\ name' = p.val
    /\ UNCHANGED <<arg, out, rawurl, branch, org, projs, projID, mrs, mrURL,
                   homeURL, calls, input>>

ParseOrg ==
    /\ pc = "parseOrg"
    /\ LET p == parseRepoURLProjectOrg(rawurl) IN
       IF p.panic THEN Panicked /\ org' = org
       ELSE pc' = "parseURL" /\ exit' = exit /\ org' = p.val
    /\ UNCHANGED <<arg, out, rawurl, branch, name, projs, projID, mrs, mrURL,
                   homeURL, calls, input>>

ParseURL ==
    /\ pc = "parseURL"
    /\ LET p == parseRepoURLProjectURL(rawurl) IN
       IF p.panic THEN Panicked /\ homeURL' = homeURL
       ELSE pc' = "parsed" /\ exit' = exit /\ homeURL' = p.val
    /\ UNCHANGED <<arg, out, rawurl, branch, name, org, projs, projID, mrs,
                   mrURL, calls, input>>

NextParse ==
    \/ ParseName
    \/ ParseOrg
    \/ ParseURL

SpecParse == InitParse /\ [][NextParse]_vars

(***************************************************************************)
(* Properties.                                                             *)
(***************************************************************************)
Chars(s) == {s[i] : i \in 1..Len(s)}

NamePlaced == pc \in {"parseOrg", "parseURL", "parsed"}
OrgPlaced == pc \in {"parseURL", "parsed"}

ParsedAsBuilt ==
    /\ pc # "done"
    /\ NamePlaced => name = input.name
    /\ OrgPlaced => org = input.org
    /\ pc = "parsed" =>
         homeURL = HttpsScheme \o input.host \o <<"/">> \o input.org \o <<"/">>
                       \o input.name

\* the form the claim describes: user, host, org and name non-empty, host and
\* org free of ":" and "/", user free of "@"
ClaimedForm(in) ==
    /\ in.user # <<>> /\ in.host # <<>> /\ in.org # <<>> /\ in.name # <<>>
    /\ Chars(in.host) \cap {":", "/"} = {}
    /\ Chars(in.org) \cap {":", "/"} = {}
    /\ "@" \notin Chars(in.user)

\* C1 as stated: for every remote URL user@host:org/name.git of the claimed
\* form the three parsers return org, name and https://host/org/name.
C1_AsStated == ClaimedForm(input) => ParsedAsBuilt

\* C1 (amended): for every remote URL user@host:org/name.git of the claimed
\* form whose user is also free of ":", parseRepoURLProjectOrg returns org,
\* parseRepoURLProjectName returns name and parseRepoURLProjectURL returns
\* https://host/org/name.
C1_ParseSSH ==
    (ClaimedForm(input) /\ ":" \notin Chars(input.user)) => ParsedAsBuilt

C1_Witness ==
    /\ pc = "parsed"
    /\ input = GitHubInput
    /\ rawurl = UrlGitHub
    /\ name = <<"g", "i", "t", "-", "o", "p", "e", "n">>
    /\ org = <<"m", "i", "n", "o", "n", "d">>
    /\ homeURL = <<"h", "t", "t", "p", "s", ":", "/", "/", "g", "i", "t", "h", "u", "b", ".", "c", "o", "m", "/", "m", "i", "n", "o", "n", "d", "/", "g", "i", "t", "-", "o", "p", "e", "n">>

(***************************************************************************)
(* The history of a run.                                                   *)
(***************************************************************************)
Arg1 == IF Len(arg) > 0 THEN arg[1] ELSE "none"

Mode ==
    IF Arg1 = "mr" THEN "mr"
    ELSE IF Arg1 \in {"none", "home", "homepage"} THEN "home"
    ELSE "invalid"

Openers == {"xdg-open", "open"}
APIs == {"ListProjects", "ListProjectMergeRequests"}

CallsOf(S) == {i \in 1..Len(calls) : calls[i].call \in S}

LastCall == calls[Len(calls)]

Ended == pc = "done"
Failed == pc = "done" /\ exit \notin {0, Running}

\* C2: an API call happens only when the first argument is "mr"; a run with
\* no argument, "home" or "homepage" only reads the push remote and launches
\* the home URL; a run with any other argument ends with a non-zero exit
\* having made no network call, run no git command and launched nothing.
C2_APIOnlyForMR ==
    /\ CallsOf(APIs) # {} => Arg1 = "mr"
    /\ Mode = "home" =>
         /\ pc \in {"start", "getProjectHomeURL", "loadHome", "done"}
         /\ CallsOf({"git remote -v"} \cup Openers) = 1..Len(calls)
         /\ \A i \in CallsOf(Openers) : calls[i].req = <<homeURL>>
    /\ Mode = "invalid" =>
         /\ calls = <<>>
         /\ pc \in {"start", "done"}
         /\ Ended => Failed

(***************************************************************************)
(* The steps of the pipeline, numbered as in the overview: 1 branch        *)
(* resolution, 2 remote parsing, 3 project lookup, 4 request lookup,       *)
(* 5 launch.                                                               *)
(***************************************************************************)
StepOf(c) ==
    IF c = "git branch" THEN 1
    ELSE IF c = "git remote -v" THEN 2
    ELSE IF c = "ListProjects" THEN 3
    ELSE IF c = "ListProjectMergeRequests" THEN 4
    ELSE 5

StepOrder ==
    IF Mode = "mr" THEN <<1, 2, 3, 4, 5>>
    ELSE IF Mode = "home" THEN <<2, 5>>
    ELSE <<>>

\* the steps taken, a step that makes two calls in a row counted once
RECURSIVE StepsTaken(_)
StepsTaken(cs) ==
    IF cs = <<>> THEN <<>>
    ELSE LET rest == StepsTaken(Tail(cs))
             st == StepOf(Head(cs).call)
         IN IF rest # <<>> /\ Head(rest) = st THEN rest ELSE <<st>> \o rest

IsPrefix(a, b) == Len(a) <= Len(b) /\ SubSeq(b, 1, Len(a)) = a

\* C3: the steps run in the order of the mode, a step that fails ends the
\* process at once with a non-zero exit, nothing runs after it (the launcher
\* least of all), no step is retried, and the exit is 0 only when every step
\* of the mode, the launcher included, succeeded.
C3_FailFast ==
    /\ IsPrefix(StepsTaken(calls), StepOrder)
    /\ \A i \in 1..(Len(calls) - 1) : calls[i].ok
    /\ (calls # <<>> /\ ~LastCall.ok) => Failed
    /\ \A i \in CallsOf(Openers) : \A j \in 1..(i - 1) : calls[j].ok /\ calls[j].ran
    /\ \A c \in {"git branch"} \cup APIs :
         Cardinality(CallsOf({c})) <= 1
    /\ Cardinality(CallsOf(Openers)) <= 1
    /\ (Ended /\ exit = 0) =>
         /\ Mode # "invalid"
         /\ StepsTaken(calls) = StepOrder
         /\ \A i \in 1..Len(calls) : calls[i].ok /\ calls[i].ran
    /\ (Ended /\ calls # <<>> /\ LastCall.ok) => exit = 0
    /\ Ended => exit # Running

\* a run of the merge request pipeline that failed at the request lookup
C3_Witness ==
    /\ Mode = "mr"
    /\ Failed
    /\ StepsTaken(calls) = <<1, 2, 3, 4>>
    /\ ~LastCall.ok

(***************************************************************************)
(* Project lookup.                                                         *)
(***************************************************************************)
\* the decimal text of the IDs of ProjPool
IDText(id) ==
    IF id = 7 THEN <<"7">>
    ELSE IF id = 12 THEN <<"1", "2">>
    ELSE <<"3", "0", "5">>

AfterListProjects ==
    calls # <<>> /\ LastCall.call = "ListProjects" /\ LastCall.ran

\* org + "/" + name + ".git" of the local push remote
LocalSuffix ==
    parseRepoURLProjectOrg(rawurl).val \o <<"/">> \o name \o GitSuffix

EndsWith(s, t) ==
    /\ Len(t) <= Len(s)
    /\ \A k \in 1..Len(t) : s[Len(s) - Len(t) + k] = t[k]

Matching == {i \in 1..Len(projs) : EndsWith(projs[i].SSHURLToRepo, LocalSuffix)}

\* C4: project lookup fails when the search returns no candidate, fails when
\* no candidate has an SSH URL ending with org/name.git, and otherwise
\* returns the ID of the first candidate, in API order, that has the suffix.
C4_SuffixMatch ==
    AfterListProjects =>
        IF Matching = {}
        THEN Failed /\ exit = 1 /\ ~LastCall.ok
        ELSE /\ pc = "getMRURL"
             /\ projID = IDText(projs[Min(Matching)].ID)

\* C10: the candidate project lookup selects has the org and the name of the
\* local push remote, as the remote parsers read them from its SSH URL.
C10_SameProject ==
    (AfterListProjects /\ pc = "getMRURL") =>
        \A i \in 1..Len(projs) :
            (IDText(projs[i].ID) = projID /\ \A j \in 1..(i - 1) : projs[j] # projs[i])
            => /\ parseRepoURLProjectOrg(projs[i].SSHURLToRepo) = Ok(org)
               /\ parseRepoURLProjectName(projs[i].SSHURLToRepo) = Ok(name)

(***************************************************************************)
(* Request lookup.                                                         *)
(***************************************************************************)
AfterGetMRURL ==
    calls # <<>> /\ LastCall.call = "ListProjectMergeRequests"

\* C5: the request asks for the opened merge requests of the resolved
\* project whose source branch is the resolved branch; an empty answer is a
\* failure, otherwise the web URL of the first merge request is returned
\* unchanged and is the URL handed to the launcher.
C5_FirstMR ==
    /\ \A i \in CallsOf({"ListProjectMergeRequests"}) :
         /\ i = 5
         /\ calls[1].call = "git branch"
         /\ calls[i - 1].call = "ListProjects"
         /\ calls[i].req[1] = calls[i - 1].res
         /\ calls[i].req[2] = calls[1].res
         /\ calls[i].req[3] = StateOpened
    /\ (AfterGetMRURL /\ LastCall.ran) =>
         IF mrs = <<>>
         THEN Failed /\ exit = 1 /\ ~LastCall.ok
         ELSE pc = "loadMR" /\ mrURL = mrs[1].WebURL /\ LastCall.ok
    /\ Mode = "mr" =>
         \A i \in CallsOf(Openers) : mrs # <<>> /\ calls[i].req = <<mrs[1].WebURL>>

\* the second of two merge requests was not taken, and the first was launched
C5_Witness ==
    /\ Ended /\ exit = 0
    /\ Len(mrs) = 2 /\ mrs[1] # mrs[2]
    /\ LastCall.call \in Openers
    /\ LastCall.req = <<mrs[1].WebURL>>

(***************************************************************************)
(* The git listings, read without Split and Fields: a line is a maximal    *)
(* stretch free of newlines, a field a maximal stretch free of spaces.     *)
(***************************************************************************)
\* the lines of o, as <<first, last>> positions (first = last + 1: empty)
LineEnd(o, a) == Min({b \in (a - 1)..Len(o) : b = Len(o) \/ o[b + 1] = "\n"})

LinesOf(o) ==
    {<<a, LineEnd(o, a)>> : a \in {a \in 1..(Len(o) + 1) : a = 1 \/ o[a - 1] = "\n"}}

\* the fields of the line l of o, as <<first, last>> positions
FieldEnd(o, l, i) == Min({j \in i..l[2] : j = l[2] \/ IsSpace(o[j + 1])})

FieldsOf(o, l) ==
    {<<i, FieldEnd(o, l, i)>> :
        i \in {i \in l[1]..l[2] :
                 ~IsSpace(o[i]) /\ (i = l[1] \/ IsSpace(o[i - 1]))}}

\* the n-th field of the line l of o; defined when the line has n fields
FieldAt(o, l, n) ==
    LET f == CHOOSE f \in FieldsOf(o, l) :
                 Cardinality({g \in FieldsOf(o, l) : g[1] < f[1]}) = n - 1
    IN SubSeq(o, f[1], f[2])

FirstLine(L) == CHOOSE l \in L : \A m \in L : l[1] <= m[1]

\* r is s without its leading and trailing white space
IsTrimOf(r, s) ==
    /\ r = <<>> \/ (~IsSpace(r[1]) /\ ~IsSpace(r[Len(r)]))
    /\ \E i \in 1..(Len(s) + 1) :
         /\ i + Len(r) - 1 <= Len(s)
         /\ \A k \in 1..Len(r) : s[i + k - 1] = r[k]
         /\ \A k \in 1..(i - 1) : IsSpace(s[k])
         /\ \A k \in (i + Len(r))..Len(s) : IsSpace(s[k])

MarkedLines(o) == {l \in LinesOf(o) : l[1] <= l[2] /\ o[l[1]] = "*"}

AfterGetBranch ==
    calls # <<>> /\ LastCall.call = "git branch" /\ LastCall.ran

\* C6: when `git branch` has run, getBranch fails if no line of its output
\* starts with "*", and otherwise returns the first such line without the
\* marker and without the white space around the rest.
C6_CurrentBranch ==
    AfterGetBranch =>
        IF MarkedLines(out) = {}
        THEN Failed /\ exit = 1 /\ ~LastCall.ok
        ELSE LET l == FirstLine(MarkedLines(out)) IN
             /\ pc = "getProjectName"
             /\ LastCall.ok
             /\ IsTrimOf(branch, SubSeq(out, l[1] + 1, l[2]))

\* two marked lines naming different branches: the first one is returned
C6_Witness ==
    /\ AfterGetBranch
    /\ Cardinality(MarkedLines(out)) = 2
    /\ branch = <<"d">>
    /\ \E l \in MarkedLines(out) : IsTrimOf(<<"f">>, SubSeq(out, l[1] + 1, l[2]))

PushLines(o) ==
    {l \in LinesOf(o) :
        /\ Cardinality(FieldsOf(o, l)) >= 3
        /\ FieldAt(o, l, 3) = PushTag}

AfterGetProjectRemote ==
    calls # <<>> /\ LastCall.call = "git remote -v" /\ LastCall.ran

\* C7: when `git remote -v` has run, getProjectRemote returns the second
\* field of the first line of its output whose third field is "(push)", and
\* fails exactly when the output has no such line.
C7_PushRemote ==
    AfterGetProjectRemote =>
        IF PushLines(out) = {}
        THEN Failed /\ exit = 1 /\ rawurl = <<>> /\ ~LastCall.ok
        ELSE /\ rawurl = FieldAt(out, FirstLine(PushLines(out)), 2)
             /\ LastCall.res = rawurl
             /\ ~(Ended /\ exit = 1)

\* a fetch line and a short line are skipped, the first of two push lines wins
C7_Witness ==
    /\ AfterGetProjectRemote
    /\ \E l \in LinesOf(out) :
         /\ Cardinality(FieldsOf(out, l)) >= 3
         /\ FieldAt(out, l, 3) = FetchTag
         /\ \A p \in PushLines(out) : l[1] < p[1]
    /\ PushLines(out) # {}
    /\ rawurl = UrlSSH
    /\ pc \in {"getProjectOrg", "ListProjects", "loadHome"}

(***************************************************************************)
(* The remote within one run.                                              *)
(***************************************************************************)
RemoteReads == CallsOf({"git remote -v"})

\* C8: the push remote is read from git at most once per run, and the org
\* and the name project lookup uses are parsed from that one value.
C8_ReadOnce ==
    /\ Cardinality(RemoteReads) <= 1
    /\ pc \in {"ListProjects", "getMRURL", "loadMR"} =>
         \E i \in RemoteReads :
             /\ parseRepoURLProjectName(calls[i].res) = Ok(name)
             /\ parseRepoURLProjectOrg(calls[i].res) = Ok(org)

\* the remote is not of the form user@host:org/name.git
Malformed(u) ==
    ~ \E i, j, k \in 1..Len(u) :
          i < j /\ j < k /\ u[i] = "@" /\ u[j] = ":" /\ u[k] = "/"

FailedFast(i) ==
    /\ Failed
    /\ i = Len(calls)
    /\ CallsOf(APIs) = {}
    /\ CallsOf(Openers) = {}

\* C9 as stated: whenever the push remote read is not of the SSH form, the
\* run of either mode fails before any API call and before the launcher.
C9_AsStated ==
    \A i \in RemoteReads :
        (calls[i].ran /\ calls[i].res # <<>> /\ Malformed(calls[i].res))
        => FailedFast(i)

NoSlashAfterColon(u) ==
    \A j \in 1..Len(u) :
        (u[j] = ":" /\ \A k \in 1..(j - 1) : u[k] # ":")
        => \A k \in (j + 1)..Len(u) : u[k] # "/"

\* the reads at which the parser applied to the remote finds no separator
Unparsable(i) ==
    LET u == calls[i].res IN
    \/ Mode = "mr" /\ ":" \notin Chars(u)
    \/ Mode = "mr" /\ i = Min(RemoteReads) /\ NoSlashAfterColon(u)
    \/ Mode = "home" /\ "@" \notin Chars(u)

\* C9 (amended): a push remote without ":" ends a run of mode "mr", one with
\* no "/" after its first ":" ends it when it is the remote read for the
\* name, and one without "@" ends a run of mode "home": the process panics
\* (exit 2) before any API call and before the launcher.
C9_PanicOnMissingSeparator ==
    \A i \in RemoteReads :
        (calls[i].ran /\ calls[i].res # <<>> /\ Unparsable(i))
        => FailedFast(i) /\ exit = 2

\* a "mr" run that read the remote h:org with no "/" and stopped there
C9_Witness ==
    /\ Mode = "mr"
    /\ \E i \in RemoteReads : calls[i].res = UrlNoSlash /\ FailedFast(i)
    /\ exit = 2

====
